---- MODULE Spec2Model ----
(***************************************************************************)
(* Model of the stock supply/demand pipeline: the flow-record store of     *)
(* data_collector.py, the trend / score / recommendation functions of      *)
(* analysis.py and collect_stockdemand.py, and the favorites ranker.       *)
(*                                                                         *)
(* A pandas Series is a sequence of integers, most recent first.  Float    *)
(* arithmetic on the scores is carried out in integer tenths (analysis.py, *)
(* weights 0.4/0.4/0.2) and hundredths (collect_stockdemand.py, weights    *)
(* 40/100, 40/100, 20/100); every intermediate value of the source is a    *)
(* multiple of 0.5 and so exact in binary floating point.                  *)
(***************************************************************************)
EXTENDS Integers, Sequences, FiniteSets, TLC

VARIABLES
    supply,     \* rows of table stock_supply_demand, column id left out
    last_write, \* history: per (stock_code, date), the record last upserted
    ret,        \* what the last store operation of the running process returned
    arg,        \* the input handed to a pure function
    out,        \* what the pure function returned
    impl,       \* the class whose collect_all_stocks is running
    pc,         \* where the batch run stands
    stock_no,   \* index into stock_list of the security the loop is at
    all_data,   \* StockDataCollector.collect_all_stocks: the records parsed so far
    events,     \* history: the fetches and sleeps of the run, in order
    rowids,     \* column id of stock_supply_demand: the keys of the rows of
                \* supply in ascending id order (kept under SpecRank only)
    stocks,     \* rows of table stocks
    trend_analysis, \* rows of table supply_trend_analysis, column id left out
    today       \* the day datetime.now() falls on

storeVars == <<supply, last_write, ret>>
pureVars == <<arg, out>>
batchVars == <<impl, pc, stock_no, all_data, events, stocks, trend_analysis, today>>
vars == <<supply, last_write, ret, arg, out, impl, pc, stock_no, all_data, events, rowids,
          stocks, trend_analysis, today>>

----------------------------------------------------------------------------
(* Bounds and input sets *)

MaxLen == 6          \* longest series handed to a series function
ScoreMargin == 5     \* scores tried outside 0..100 on either side

Labels == {"strong_buy", "buy", "neutral", "sell", "strong_sell"}
Qty == {-1, 0, 1}    \* one net-buy quantity of each sign
ExampleSeries == {<<100, 50, 30, -10, 20>>, <<3, 2, 1, -1>>, <<-1, -2, 3>>, <<0, 5, 5>>}

SeriesUpTo(n) == UNION {[1..k -> Qty] : k \in 0..n}

NoOut == [fn |-> "none", n |-> 0, label |-> "none", label2 |-> "none"]
NoArg == [kind |-> "none", trends |-> <<>>, score |-> 0, data |-> <<>>,
          other |-> <<>>, window |-> 0]
NoRet == [op |-> "none"]

----------------------------------------------------------------------------
(* Helpers for pandas / Python primitives *)

Min(a, b) == IF a < b THEN a ELSE b
Max(a, b) == IF a > b THEN a ELSE b

\* Series.head(n): the first n elements, or all of them when there are fewer
head(data, n) == SubSeq(data, 1, Min(n, Len(data)))

\* (data > 0).sum() and (data < 0).sum()
positive_count(data) == Cardinality({k \in 1..Len(data) : data[k] > 0})
negative_count(data) == Cardinality({k \in 1..Len(data) : data[k] < 0})

\* int(x) of a float x = num / den (den > 0): truncation toward zero
int(num, den) == IF num >= 0 THEN num \div den ELSE -((-num) \div den)

----------------------------------------------------------------------------
(* Streak detector: StockSupplyDemandCollector.calculate_continuous_days *)

sign_of(v) == IF v > 0 THEN 1 ELSE IF v < 0 THEN -1 ELSE 0

RECURSIVE continuous_loop(_, _, _, _)
continuous_loop(data, i, current_sign, continuous_days) ==
    IF i > Len(data) THEN continuous_days
    ELSE IF sign_of(data[i]) = current_sign
         THEN continuous_loop(data, i + 1, current_sign, continuous_days + 1)
         ELSE continuous_days

\* a loop that counts every later value of the first sign and never breaks
calculate_continuous_days_nobreak(data) ==
    IF Len(data) < 1 THEN 0
    ELSE LET current_sign == sign_of(data[1]) IN
         IF current_sign = 0 THEN 0
         ELSE current_sign *
              Cardinality({k \in 1..Len(data) : sign_of(data[k]) = current_sign})

calculate_continuous_days(data) ==
    IF Len(data) < 1 THEN 0
    ELSE LET current_sign == sign_of(data[1]) IN
         IF current_sign = 0 THEN 0
         ELSE continuous_loop(data, 2, current_sign, 1) * current_sign

----------------------------------------------------------------------------
(* Trend classifier *)

\* the if/elif chain shared by both assess_trend methods; the float test
\* count >= total_count * 0.7 is the integer test 10 * count >= 7 * total_count
\* (below) the same chain with a threshold of 0.6
trend_rule_loose(positive, negative, total_count) ==
    IF positive = total_count THEN "strong_buy"
    ELSE IF 10 * positive >= 6 * total_count THEN "buy"
    ELSE IF negative = total_count THEN "strong_sell"
    ELSE IF 10 * negative >= 6 * total_count THEN "sell"
    ELSE "neutral"

trend_rule(positive, negative, total_count) ==
    IF positive = total_count THEN "strong_buy"
    ELSE IF 10 * positive >= 7 * total_count THEN "buy"
    ELSE IF negative = total_count THEN "strong_sell"
    ELSE IF 10 * negative >= 7 * total_count THEN "sell"
    ELSE "neutral"

\* a classifier that counts over the whole series it is given
Collector_assess_trend_whole(data) ==
    IF Len(data) < 3 THEN "neutral"
    ELSE trend_rule(positive_count(data), negative_count(data), Len(data))

\* StockSupplyDemandCollector.assess_trend
Collector_assess_trend(data) ==
    IF Len(data) < 3 THEN "neutral"
    ELSE LET recent_data == head(data, 5) IN
         trend_rule(positive_count(recent_data), negative_count(recent_data),
                    Len(recent_data))

\* StockAnalyzer.assess_trend
Analyzer_assess_trend(data) ==
    IF Len(data) < 2 THEN "neutral"
    ELSE trend_rule(positive_count(data), negative_count(data), Len(data))

----------------------------------------------------------------------------
(* Score aggregator and recommendation *)

foreigner_map(l) ==
    CASE l = "strong_buy" -> 100 [] l = "buy" -> 75 [] l = "neutral" -> 50
      [] l = "sell" -> 25 [] l = "strong_sell" -> 0

\* an institutional table with uneven steps
organ_map_steep(l) ==
    CASE l = "strong_buy" -> 100 [] l = "buy" -> 80 [] l = "neutral" -> 50
      [] l = "sell" -> 20 [] l = "strong_sell" -> 0

organ_map(l) ==
    CASE l = "strong_buy" -> 100 [] l = "buy" -> 75 [] l = "neutral" -> 50
      [] l = "sell" -> 25 [] l = "strong_sell" -> 0

\* the individual leg read through the table of the other two legs
individual_map_plain(l) ==
    CASE l = "strong_buy" -> 100 [] l = "buy" -> 75 [] l = "neutral" -> 50
      [] l = "sell" -> 25 [] l = "strong_sell" -> 0

individual_map(l) ==
    CASE l = "strong_buy" -> 0 [] l = "buy" -> 25 [] l = "neutral" -> 50
      [] l = "sell" -> 75 [] l = "strong_sell" -> 100

\* max(0, min(100, int(score))) for score = num / den
clamp_int(num, den) == Max(0, Min(100, int(num, den)))

\* a version that adds the weighted reference values without centring them on
\* 50 and leaves out the final clamp
Analyzer_calculate_supply_score_uncentred(f, o, i) ==
    int(500 + foreigner_map(f) * 4 + organ_map(o) * 4 + individual_map(i) * 2, 10)

\* the sum in tenths with a weight of 0.3 on the individual leg
Analyzer_score_heavier(f, o, i) ==
    500 + (foreigner_map(f) - 50) * 4 + (organ_map(o) - 50) * 4
        + (individual_map(i) - 50) * 3

\* StockAnalyzer.calculate_supply_score: score as it stands before the return
\* statement, in tenths
Analyzer_score(f, o, i) ==
    LET s0 == 500
        s1 == s0 + (foreigner_map(f) - 50) * 4
        s2 == s1 + (organ_map(o) - 50) * 4
        s3 == s2 + (individual_map(i) - 50) * 2
    IN  s3

\* StockAnalyzer.calculate_supply_score
Analyzer_calculate_supply_score(f, o, i) == clamp_int(Analyzer_score(f, o, i), 10)

\* StockSupplyDemandCollector.calculate_supply_score: score as it stands
\* before the return statement, in hundredths
Collector_score(f, o, i) ==
    LET foreigner_weight == 40
        organ_weight == 40
        individual_weight == 20
        s0 == 5000
        s1 == s0 + (foreigner_map(f) - 50) * foreigner_weight
        s2 == s1 + (organ_map(o) - 50) * organ_weight
        s3 == s2 + (individual_map(i) - 50) * individual_weight
    IN  s3

\* StockSupplyDemandCollector.calculate_supply_score
Collector_calculate_supply_score(f, o, i) == clamp_int(Collector_score(f, o, i), 100)

\* the thresholds compared with > in place of >=
get_recommendation_strict(score) ==
    IF score > 80 THEN "strong_buy"
    ELSE IF score > 60 THEN "buy"
    ELSE IF score > 40 THEN "hold"
    ELSE IF score > 20 THEN "sell"
    ELSE "strong_sell"

\* get_recommendation, the same text in StockAnalyzer and
\* StockSupplyDemandCollector
get_recommendation(score) ==
    IF score >= 80 THEN "strong_buy"
    ELSE IF score >= 60 THEN "buy"
    ELSE IF score >= 40 THEN "hold"
    ELSE IF score >= 20 THEN "sell"
    ELSE "strong_sell"

----------------------------------------------------------------------------
(* The flow-record store and the analysis queries over it *)

MaxRows == 3         \* rows the store may hold

Codes == {"A", "B"}
\* the display names a security has been listed under
Names == [c \in Codes |-> IF c = "A" THEN {"x", "y"} ELSE {"z"}]
Dates == {1, 2}      \* consecutive calendar days, as YYYY-MM-DD sorts them
\* the day the queries run on: date('now')
Today == CHOOSE d \in Dates : \A e \in Dates : e <= d
Keys == Codes \X Dates
\* (foreigner_pure_buy, organ_pure_buy, individual_pure_buy) of one day
Flows == {<<1, 1, -1>>, <<-1, -1, 1>>, <<1, -1, 0>>}
DaysArgs == {0, 1}
MinScores == {40, 60}
Windows == {1, 5}

FlowRecords ==
    UNION {{[stock_code |-> c, stock_name |-> n, date |-> d,
             foreigner_pure_buy |-> fl[1], organ_pure_buy |-> fl[2],
             individual_pure_buy |-> fl[3]] :
               n \in Names[c], d \in Dates, fl \in Flows} : c \in Codes}

\* a stock_data_list of at most two records
Batches ==
    {<<>>} \cup {<<r>> : r \in FlowRecords}
           \cup {<<r, q>> : r \in FlowRecords, q \in FlowRecords}

NoRow == [stock_code |-> "none"]

key(r) == <<r.stock_code, r.date>>

\* INSERT without the UNIQUE(stock_code, date) conflict resolution
insert_plain(table, data) == table \cup {data}

\* INSERT OR REPLACE under UNIQUE(stock_code, date): the row holding the key
\* is deleted, then the new row is inserted
insert_or_replace(table, data) ==
    {r \in table : key(r) # key(data)} \cup {data}

\* a loop that gives up at the first cursor.execute that raises, as it would
\* with the try around the loop instead of inside it
save_loop_stop(table, stock_data_list, failed, k) ==
    LET stop == {n \in failed : n >= k}
        upto == IF stop = {} THEN Len(stock_data_list)
                ELSE (CHOOSE n \in stop : \A o \in stop : n <= o) - 1
    IN  {r \in table : \A n \in k..upto : key(stock_data_list[n]) # key(r)}
            \cup {stock_data_list[n] : n \in
                     {n \in k..upto : \A o \in k..upto :
                                         key(stock_data_list[o]) = key(stock_data_list[n])
                                             => o <= n}}

\* the for loop of save_stock_data over stock_data_list; failed holds the
\* positions whose cursor.execute raises, which the except clause swallows
RECURSIVE save_loop(_, _, _, _)
save_loop(table, stock_data_list, failed, k) ==
    IF k > Len(stock_data_list) THEN table
    ELSE IF k \in failed
         THEN save_loop(table, stock_data_list, failed, k + 1)
         ELSE save_loop(insert_or_replace(table, stock_data_list[k]),
                        stock_data_list, failed, k + 1)

\* StockDataCollector.save_stock_data: the table after the commit
save_stock_data(table, stock_data_list, failed) ==
    IF stock_data_list = <<>> THEN table
    ELSE save_loop(table, stock_data_list, failed, 1)

\* saved_count as the loop of save_stock_data leaves it
RECURSIVE saved_count(_, _, _)
saved_count(stock_data_list, failed, k) ==
    IF k > Len(stock_data_list) THEN 0
    ELSE (IF k \in failed THEN 0 ELSE 1) + saved_count(stock_data_list, failed, k + 1)

without(ids, k) == SelectSeq(ids, LAMBDA x : x # k)

\* column id INTEGER PRIMARY KEY AUTOINCREMENT under INSERT OR REPLACE: the
\* replaced row goes and the new row takes an id above every id handed out
RECURSIVE save_rowids(_, _, _, _)
save_rowids(ids, stock_data_list, failed, k) ==
    IF k > Len(stock_data_list) THEN ids
    ELSE IF k \in failed
         THEN save_rowids(ids, stock_data_list, failed, k + 1)
         ELSE save_rowids(Append(without(ids, key(stock_data_list[k])),
                                 key(stock_data_list[k])),
                          stock_data_list, failed, k + 1)

\* ORDER BY date DESC over a set of rows
RECURSIVE order_by_date_desc(_)
order_by_date_desc(rows) ==
    IF rows = {} THEN <<>>
    ELSE LET r == CHOOSE x \in rows : \A y \in rows : y.date <= x.date
         IN  <<r>> \o order_by_date_desc(rows \ {r})

\* StockAnalyzer.get_recent_data(stock_code, days)
get_recent_data(table, stock_code, days) ==
    head(order_by_date_desc({r \in table : r.stock_code = stock_code}), days)

column(data, c) == [k \in 1..Len(data) |-> data[k][c]]

RECURSIVE sum(_)
sum(data) == IF data = <<>> THEN 0 ELSE Head(data) + sum(Tail(data))

NoAnalysis == [stock_code |-> "none"]

\* StockAnalyzer.calculate_supply_trend(stock_code, window)
calculate_supply_trend(table, stock_code, window) ==
    LET data == get_recent_data(table, stock_code, window * 2) IN
    IF data = <<>> THEN NoAnalysis
    ELSE LET recent_data == head(data, window)
             foreigner_data == column(recent_data, "foreigner_pure_buy")
             organ_data == column(recent_data, "organ_pure_buy")
             individual_data == column(recent_data, "individual_pure_buy")
             foreigner_trend == Analyzer_assess_trend(foreigner_data)
             organ_trend == Analyzer_assess_trend(organ_data)
             individual_trend == Analyzer_assess_trend(individual_data)
             supply_score == Analyzer_calculate_supply_score(
                                 foreigner_trend, organ_trend, individual_trend)
         IN  [stock_code |-> stock_code,
              stock_name |-> recent_data[1].stock_name,
              window_days |-> window,
              foreigner_total |-> sum(foreigner_data),
              foreigner_trend |-> foreigner_trend,
              organ_total |-> sum(organ_data),
              organ_trend |-> organ_trend,
              individual_total |-> sum(individual_data),
              individual_trend |-> individual_trend,
              supply_score |-> supply_score,
              recommendation |-> get_recommendation(supply_score)]

\* SUM(column) over a set of rows
RECURSIVE sum_rows(_, _)
sum_rows(rows, c) ==
    IF rows = {} THEN 0
    ELSE LET r == CHOOSE x \in rows : TRUE IN r[c] + sum_rows(rows \ {r}, c)

\* WHERE date >= date('now', '-days days') GROUP BY stock_code, stock_name
\* HAVING total_foreigner_buy > 0 AND total_organ_buy > 0
favorites_groups(table, days) ==
    LET in_window == {r \in table : r.date >= Today - days}
        group_keys == {<<r.stock_code, r.stock_name>> : r \in in_window}
        group(g) == {r \in in_window : r.stock_code = g[1] /\ r.stock_name = g[2]}
        rows == {[stock_code |-> g[1], stock_name |-> g[2],
                  total_foreigner_buy |-> sum_rows(group(g), "foreigner_pure_buy"),
                  total_organ_buy |-> sum_rows(group(g), "organ_pure_buy")] :
                    g \in group_keys}
    IN  {row \in rows : row.total_foreigner_buy > 0 /\ row.total_organ_buy > 0}

total_buy(row) == row.total_foreigner_buy + row.total_organ_buy

\* a result set left in whatever order the grouping produced it
unordered(rows) ==
    {df \in [1..Cardinality(rows) -> rows] : \A row \in rows : \E k \in DOMAIN df : df[k] = row}

\* ORDER BY (total_foreigner_buy + total_organ_buy) DESC: the orders the query
\* may return the rows in; rows of equal total come in an order SQL leaves open
order_by_total_desc(rows) ==
    {df \in [1..Cardinality(rows) -> rows] :
        /\ \A row \in rows : \E k \in DOMAIN df : df[k] = row
        /\ \A k \in 1..(Len(df) - 1) : total_buy(df[k]) >= total_buy(df[k + 1])}

\* the for loop of find_institutional_favorites over df.iterrows()
RECURSIVE favorites_loop(_, _, _, _, _)
favorites_loop(table, df, i, min_score, results) ==
    IF i > Len(df) THEN results
    ELSE LET row == df[i]
             analysis == calculate_supply_trend(table, row.stock_code, 5)
         IN  IF analysis # NoAnalysis /\ analysis.supply_score >= min_score
             THEN favorites_loop(table, df, i + 1, min_score,
                      Append(results,
                             [stock_code |-> row.stock_code,
                              stock_name |-> row.stock_name,
                              foreigner_total_buy |-> row.total_foreigner_buy,
                              organ_total_buy |-> row.total_organ_buy,
                              total_institutional_buy |->
                                  row.total_foreigner_buy + row.total_organ_buy,
                              supply_score |-> analysis.supply_score,
                              recommendation |-> analysis.recommendation]))
             ELSE favorites_loop(table, df, i + 1, min_score, results)

\* StockAnalyzer.find_institutional_favorites(days, min_score): the frames it
\* may return
find_institutional_favorites(table, days, min_score) ==
    {favorites_loop(table, df, 1, min_score, <<>>) :
        df \in order_by_total_desc(favorites_groups(table, days))}

\* the store init_database leaves on a fresh file
NoStore ==
    /\ supply = {}
    /\ last_write = [k \in Keys |-> NoRow]
    /\ ret = NoRet
    /\ rowids = <<>>

\* no batch run
NoBatch ==
    /\ impl = "none"
    /\ pc = "none"
    /\ stock_no = 0
    /\ all_data = <<>>
    /\ events = <<>>
    /\ stocks = {}
    /\ trend_analysis = {}
    /\ today = 1

Init ==
    /\ NoStore
    /\ arg = NoArg
    /\ out = NoOut
    /\ NoBatch

\* the record of stock_data_list that an upsert stored last for key k
last_in_batch(stock_data_list, failed, k) ==
    LET at == {n \in DOMAIN stock_data_list \ failed : key(stock_data_list[n]) = k}
    IN  stock_data_list[CHOOSE n \in at : \A m \in at : m <= n]

\* last_write after the upserts of one save_stock_data call
written(last, stock_data_list, failed) ==
    [k \in Keys |->
        IF \E n \in DOMAIN stock_data_list \ failed : key(stock_data_list[n]) = k
        THEN last_in_batch(stock_data_list, failed, k) ELSE last[k]]

\* collect_data: one save_stock_data call per process, ahead of any analysis.
\* with_ids says whether the id column is kept track of.
save_step(with_ids) ==
    /\ ret = NoRet
    /\ \E stock_data_list \in Batches :
        \E failed \in SUBSET DOMAIN stock_data_list :
            /\ supply' = save_stock_data(supply, stock_data_list, failed)
            /\ Cardinality(supply') <= MaxRows
            /\ last_write' = written(last_write, stock_data_list, failed)
            /\ ret' = [op |-> "save_stock_data",
                       saved_count |-> saved_count(stock_data_list, failed, 1)]
            /\ rowids' = IF with_ids /\ stock_data_list # <<>>
                         THEN save_rowids(rowids, stock_data_list, failed, 1)
                         ELSE rowids
            /\ UNCHANGED <<pureVars, batchVars>>

\* the store without its id column, which no query of the analyzer reads
SaveStockData == save_step(FALSE)

CalculateSupplyTrend ==
    \E stock_code \in Codes, window \in Windows :
        /\ ret' = [op |-> "calculate_supply_trend", stock_code |-> stock_code,
                   window |-> window,
                   analysis |-> calculate_supply_trend(supply, stock_code, window)]
        /\ UNCHANGED <<supply, last_write, rowids, pureVars, batchVars>>

FindInstitutionalFavorites ==
    \E days \in DaysArgs, min_score \in MinScores :
        \E results \in find_institutional_favorites(supply, days, min_score) :
            /\ ret' = [op |-> "find_institutional_favorites", days |-> days,
                       min_score |-> min_score, results |-> results]
            /\ UNCHANGED <<supply, last_write, rowids, pureVars, batchVars>>

\* the process ends: what the last call returned is dropped, the store stays
Exit ==
    /\ ret # NoRet
    /\ ret' = NoRet
    /\ UNCHANGED <<supply, last_write, rowids, pureVars, batchVars>>

Next ==
    \/ SaveStockData
    \/ CalculateSupplyTrend
    \/ FindInstitutionalFavorites
    \/ Exit

Spec == Init /\ [][Next]_vars

\* the same processes over the store with its id column
SaveStockDataIds == save_step(TRUE)

RankNext ==
    \/ SaveStockDataIds
    \/ CalculateSupplyTrend
    \/ FindInstitutionalFavorites
    \/ Exit

SpecRank == Init /\ [][RankNext]_vars

----------------------------------------------------------------------------
(* Specification of the pure functions: Init draws an input, an action     *)
(* applies one function to it.                                             *)

LabelInputs ==
    {[NoArg EXCEPT !.kind = "labels", !.trends = <<f, o, i>>] :
        f \in Labels, o \in Labels, i \in Labels}

ScoreInputs ==
    {[NoArg EXCEPT !.kind = "score", !.score = s] :
        s \in (0 - ScoreMargin)..(100 + ScoreMargin)}

SeriesInputs ==
    {[NoArg EXCEPT !.kind = "series", !.data = d] :
        d \in SeriesUpTo(MaxLen) \cup ExampleSeries}

PureInit ==
    /\ arg \in LabelInputs \cup ScoreInputs \cup SeriesInputs
    /\ out = NoOut
    /\ NoStore
    /\ NoBatch

\* calculate_supply_trend, the tail: score, then recommendation
AnalyzerScore ==
    /\ arg.kind = "labels"
    /\ LET score == Analyzer_calculate_supply_score(arg.trends[1], arg.trends[2],
                                                    arg.trends[3])
       IN out' = [NoOut EXCEPT !.fn = "StockAnalyzer.calculate_supply_score",
                               !.n = score, !.label = get_recommendation(score)]
    /\ UNCHANGED <<arg, storeVars, rowids, batchVars>>

\* analyze_supply_trend, the tail: score, then recommendation
CollectorScore ==
    /\ arg.kind = "labels"
    /\ LET score == Collector_calculate_supply_score(arg.trends[1], arg.trends[2],
                                                     arg.trends[3])
       IN out' = [NoOut EXCEPT !.fn = "StockSupplyDemandCollector.calculate_supply_score",
                               !.n = score, !.label = get_recommendation(score)]
    /\ UNCHANGED <<arg, storeVars, rowids, batchVars>>

GetRecommendation ==
    /\ arg.kind = "score"
    /\ out' = [NoOut EXCEPT !.fn = "get_recommendation", !.n = arg.score,
                            !.label = get_recommendation(arg.score)]
    /\ UNCHANGED <<arg, storeVars, rowids, batchVars>>

ContinuousDays ==
    /\ arg.kind = "series"
    /\ out' = [NoOut EXCEPT !.fn = "calculate_continuous_days",
                            !.n = calculate_continuous_days(arg.data)]
    /\ UNCHANGED <<arg, storeVars, rowids, batchVars>>

CollectorAssessTrend ==
    /\ arg.kind = "series"
    /\ out' = [NoOut EXCEPT !.fn = "StockSupplyDemandCollector.assess_trend",
                            !.label = Collector_assess_trend(arg.data)]
    /\ UNCHANGED <<arg, storeVars, rowids, batchVars>>

AnalyzerAssessTrend ==
    /\ arg.kind = "series"
    /\ out' = [NoOut EXCEPT !.fn = "StockAnalyzer.assess_trend",
                            !.label = Analyzer_assess_trend(arg.data)]
    /\ UNCHANGED <<arg, storeVars, rowids, batchVars>>

\* analyze_supply_trend, one leg: calculate_continuous_days and assess_trend
\* on the same column
CollectorLeg ==
    /\ arg.kind = "series"
    /\ out' = [NoOut EXCEPT !.fn = "StockSupplyDemandCollector.analyze_supply_trend.leg",
                            !.n = calculate_continuous_days(arg.data),
                            !.label = Collector_assess_trend(arg.data)]
    /\ UNCHANGED <<arg, storeVars, rowids, batchVars>>

PureNext ==
    \/ AnalyzerScore
    \/ CollectorLeg
    \/ CollectorScore
    \/ GetRecommendation
    \/ ContinuousDays
    \/ CollectorAssessTrend
    \/ AnalyzerAssessTrend

SpecPure == PureInit /\ [][PureNext]_vars

----------------------------------------------------------------------------
(* Specification of the windowed classifier: Init draws two series that    *)
(* agree on their first five positions and a window parameter.             *)

\* the series of length at most n that agree with d on the first five positions
agreeing(d, n) ==
    IF Len(d) < 5 THEN {d}
    ELSE {head(d, 5) \o x : x \in SeriesUpTo(n - 5)}

WindowInit ==
    /\ \E d \in SeriesUpTo(MaxLen), w \in 1..MaxLen :
          \E e \in agreeing(d, MaxLen) :
              arg = [NoArg EXCEPT !.kind = "pair", !.data = d, !.other = e,
                                  !.window = w]
    /\ out = NoOut
    /\ NoStore
    /\ NoBatch

\* calculate_supply_trend: recent_data = data.head(window), then assess_trend on
\* a column of recent_data
AnalyzerWindowTrend ==
    /\ arg.kind = "pair"
    /\ out' = [NoOut EXCEPT !.fn = "StockAnalyzer.calculate_supply_trend",
                 !.label = Analyzer_assess_trend(head(arg.data, arg.window)),
                 !.label2 = Analyzer_assess_trend(head(arg.other, arg.window))]
    /\ UNCHANGED <<arg, storeVars, rowids, batchVars>>

\* analyze_supply_trend: assess_trend on a whole column of the rows read
CollectorWindowTrend ==
    /\ arg.kind = "pair"
    /\ out' = [NoOut EXCEPT !.fn = "StockSupplyDemandCollector.analyze_supply_trend",
                 !.label = Collector_assess_trend(arg.data),
                 !.label2 = Collector_assess_trend(arg.other)]
    /\ UNCHANGED <<arg, storeVars, rowids, batchVars>>

WindowNext ==
    \/ AnalyzerWindowTrend
    \/ CollectorWindowTrend

SpecWindow == WindowInit /\ [][WindowNext]_vars

----------------------------------------------------------------------------
(* The numeric normalizer: safe_int_convert and safe_float_convert of        *)
(* data_collector.py, parse_numeric_string and parse_ratio_string of         *)
(* collect_stockdemand.py.  A str is a sequence of one-character strings, a  *)
(* bytes object a sequence of bytes, each byte an ASCII character or the     *)
(* byte 0xFF, which no UTF-8 text holds.  A finite float is the decimal      *)
(* n / 10^e with no trailing zero in n unless e = 0.                         *)

MaxText == 3         \* longest text tried exhaustively

DigitChars == <<"0", "1", "2", "3", "4", "5", "6", "7", "8", "9">>
Digits == {DigitChars[k] : k \in DOMAIN DigitChars}
digit(c) == (CHOOSE k \in DOMAIN DigitChars : DigitChars[k] = c) - 1

Chars == {"0", "1", "+", "-", ",", "%", ".", "a", " "}
InvalidByte == "0xFF"

ExampleTexts ==
    {<<"1", ",", "2", "3", "4">>, <<"+", "5", "7">>, <<"-", "5", "7">>,
     <<"a", "b", "c">>, <<"1", "+", "2">>, <<"1", "2", ".", "5", "%">>,
     <<"1", ",", "2", "3", "4", ".", "5", "%">>, <<"N", "/", "A">>}

Texts == UNION {[1..k -> Chars] : k \in 0..MaxText} \cup ExampleTexts
ByteStrings ==
    UNION {[1..k -> Chars \cup {InvalidByte}] : k \in 0..MaxText} \cup ExampleTexts

\* Python values
PyNone == [t |-> "NoneType", f |-> "", n |-> 0, e |-> 0, s |-> <<>>]
PyInt(n) == [t |-> "int", f |-> "", n |-> n, e |-> 0, s |-> <<>>]
PyStr(s) == [t |-> "str", f |-> "", n |-> 0, e |-> 0, s |-> s]
PyBytes(s) == [t |-> "bytes", f |-> "", n |-> 0, e |-> 0, s |-> s]
\* a list of one-digit integers, s their digits
PyList(s) == [t |-> "list", f |-> "", n |-> 0, e |-> 0, s |-> s]
PyNaN == [t |-> "float", f |-> "nan", n |-> 0, e |-> 0, s |-> <<>>]
\* float('inf') for n = 1, float('-inf') for n = -1
PyInf(n) == [t |-> "float", f |-> "inf", n |-> n, e |-> 0, s |-> <<>>]

RECURSIVE PyFloat(_, _)
PyFloat(n, e) ==
    IF e > 0 /\ n % 10 = 0 THEN PyFloat(n \div 10, e - 1)
    ELSE [t |-> "float", f |-> "finite", n |-> n, e |-> e, s |-> <<>>]

RECURSIVE pow10(_)
pow10(e) == IF e = 0 THEN 1 ELSE 10 * pow10(e - 1)

\* what a call does: return a value, or raise
returns(v) == [raised |-> "none", value |-> v]
raises(x) == [raised |-> x, value |-> PyNone]

\* re.sub(r'[...]', '', value)
re_sub(class, value) == SelectSeq(value, LAMBDA c : c \notin class)

\* str.strip()
RECURSIVE lstrip(_)
lstrip(s) == IF s # <<>> /\ Head(s) = " " THEN lstrip(Tail(s)) ELSE s
RECURSIVE rstrip(_)
rstrip(s) ==
    IF s # <<>> /\ s[Len(s)] = " " THEN rstrip(SubSeq(s, 1, Len(s) - 1)) ELSE s
strip(s) == rstrip(lstrip(s))

startswith(s, c) == s # <<>> /\ Head(s) = c

RECURSIVE digits_value(_)
digits_value(s) ==
    IF s = <<>> THEN 0
    ELSE 10 * digits_value(SubSeq(s, 1, Len(s) - 1)) + digit(s[Len(s)])

all_digits(s) == \A k \in DOMAIN s : s[k] \in Digits

\* try: return int(...) / float(...); except: return the fallback.  r.ok is
\* FALSE where the conversion raises.
or_fallback(r, fallback) == IF r.ok THEN returns(r.v) ELSE returns(fallback)

int_of_body(negative, body) ==
    IF body # <<>> /\ all_digits(body)
    THEN [ok |-> TRUE,
          v |-> PyInt(IF negative THEN 0 - digits_value(body) ELSE digits_value(body))]
    ELSE [ok |-> FALSE, v |-> PyNone]

int_of_stripped(s) ==
    int_of_body(startswith(s, "-"),
                IF startswith(s, "+") \/ startswith(s, "-") THEN Tail(s) ELSE s)

\* int(text): blanks around, an optional sign, then digits.  ok is FALSE
\* where Python raises ValueError.
py_int(text) == int_of_stripped(strip(text))

float_of_body(negative, body) ==
    LET points == {k \in DOMAIN body : body[k] = "."}
        point == IF points = {} THEN Len(body) + 1 ELSE CHOOSE k \in points : TRUE
        whole == SubSeq(body, 1, point - 1)
        fraction == SubSeq(body, point + 1, Len(body))
        value == digits_value(whole \o fraction)
    IN  IF body = <<"n", "a", "n">> THEN [ok |-> TRUE, v |-> PyNaN]
        ELSE IF body = <<"i", "n", "f">>
             THEN [ok |-> TRUE, v |-> PyInf(IF negative THEN -1 ELSE 1)]
        ELSE IF /\ Cardinality(points) <= 1
                /\ all_digits(whole) /\ all_digits(fraction)
                /\ whole \o fraction # <<>>
        THEN [ok |-> TRUE,
              v |-> PyFloat(IF negative THEN 0 - value ELSE value, Len(fraction))]
        ELSE [ok |-> FALSE, v |-> PyNone]

float_of_stripped(s) ==
    float_of_body(startswith(s, "-"),
                  IF startswith(s, "+") \/ startswith(s, "-") THEN Tail(s) ELSE s)

\* float(text): blanks around, an optional sign, then nan, inf, or digits with
\* at most one point and a digit on one side of it at least (exponents, which
\* no text of the model spells, left out)
py_float(text) == float_of_stripped(strip(text))

\* bytes.decode('utf-8'); ok is FALSE where it raises UnicodeDecodeError
decode(b) ==
    IF \E k \in DOMAIN b : b[k] = InvalidByte
    THEN [ok |-> FALSE, s |-> <<>>]
    ELSE [ok |-> TRUE, s |-> b]

\* int(value) of an int or a float: truncation toward zero; a NaN raises
\* ValueError, an infinity OverflowError
int_of_number(value) ==
    IF value.t = "int" THEN returns(value)
    ELSE IF value.f = "nan" THEN raises("ValueError")
    ELSE IF value.f = "inf" THEN raises("OverflowError")
    ELSE returns(PyInt(int(value.n, pow10(value.e))))

\* float(value) of an int or a float
float_of_number(value) ==
    IF value.t = "int" THEN returns(PyFloat(value.n, 0)) ELSE returns(value)

int_of_bytes(decoded) ==
    IF decoded.ok THEN or_fallback(py_int(decoded.s), PyInt(0)) ELSE returns(PyInt(0))

\* StockDataCollector.safe_int_convert
safe_int_convert(value) ==
    IF value.t = "NoneType" THEN returns(PyInt(0))
    ELSE IF value.t \in {"int", "float"} THEN int_of_number(value)
    ELSE IF value.t = "bytes" THEN int_of_bytes(decode(value.s))
    ELSE IF value.t = "str"
         THEN or_fallback(py_int(re_sub({"+", ","}, value.s)), PyInt(0))
    ELSE returns(PyInt(0))

float_of_bytes(decoded) ==
    IF decoded.ok THEN or_fallback(py_float(decoded.s), PyFloat(0, 0))
    ELSE returns(PyFloat(0, 0))

\* StockDataCollector.safe_float_convert
safe_float_convert(value) ==
    IF value.t = "NoneType" THEN returns(PyFloat(0, 0))
    ELSE IF value.t \in {"int", "float"} THEN float_of_number(value)
    ELSE IF value.t = "bytes" THEN float_of_bytes(decode(value.s))
    ELSE IF value.t = "str"
         THEN or_fallback(py_float(re_sub({"%"}, value.s)), PyFloat(0, 0))
    ELSE returns(PyFloat(0, 0))

\* bool(value): what `not value_str` negates
truthy(value) ==
    CASE value.t = "NoneType" -> FALSE
      [] value.t = "int" -> value.n # 0
      [] value.t = "float" -> value.f # "finite" \/ value.n # 0
      [] OTHER -> value.s # <<>>

RECURSIVE nat_text(_)
nat_text(n) ==
    IF n < 10 THEN <<DigitChars[n + 1]>>
    ELSE nat_text(n \div 10) \o <<DigitChars[(n % 10) + 1]>>

int_text(n) == IF n < 0 THEN <<"-">> \o nat_text(0 - n) ELSE nat_text(n)

\* the e digits after the point of a float
RECURSIVE fraction_text(_, _)
fraction_text(m, e) ==
    IF e = 0 THEN <<>>
    ELSE fraction_text(m \div 10, e - 1) \o <<DigitChars[(m % 10) + 1]>>

RECURSIVE join_items(_)
join_items(items) ==
    IF items = <<>> THEN <<>>
    ELSE IF Len(items) = 1 THEN <<items[1]>>
    ELSE <<items[1], ",", " ">> \o join_items(Tail(items))

RECURSIVE bytes_text(_)
bytes_text(b) ==
    IF b = <<>> THEN <<>>
    ELSE (IF Head(b) = InvalidByte THEN <<"\\", "x", "f", "f">> ELSE <<Head(b)>>)
         \o bytes_text(Tail(b))

\* str(value)
py_str(value) ==
    CASE value.t = "str" -> value.s
      [] value.t = "NoneType" -> <<"N", "o", "n", "e">>
      [] value.t = "int" -> int_text(value.n)
      [] value.t = "float" /\ value.f = "nan" -> <<"n", "a", "n">>
      [] value.t = "float" /\ value.f = "inf" ->
            IF value.n < 0 THEN <<"-", "i", "n", "f">> ELSE <<"i", "n", "f">>
      [] value.t = "float" /\ value.f = "finite" ->
            LET m == IF value.n < 0 THEN 0 - value.n ELSE value.n IN
            (IF value.n < 0 THEN <<"-">> ELSE <<>>)
            \o nat_text(m \div pow10(value.e)) \o <<".">>
            \o (IF value.e = 0 THEN <<"0">>
                ELSE fraction_text(m % pow10(value.e), value.e))
      [] value.t = "bytes" -> <<"b", "'">> \o bytes_text(value.s) \o <<"'">>
      [] OTHER -> <<"[">> \o join_items(value.s) \o <<"]">>

NA == <<"N", "/", "A">>

\* -int(...)
negated(r) == [ok |-> r.ok, v |-> PyInt(0 - r.v.n)]

numeric_of_cleaned(cleaned) ==
    IF cleaned = <<>> THEN returns(PyInt(0))
    ELSE IF startswith(cleaned, "-")
         THEN or_fallback(negated(py_int(re_sub({","}, Tail(cleaned)))), PyInt(0))
    ELSE or_fallback(py_int(re_sub({","}, cleaned)), PyInt(0))

\* StockSupplyDemandCollector.parse_numeric_string
parse_numeric_string(value_str) ==
    IF ~truthy(value_str) \/ value_str = PyStr(NA) THEN returns(PyInt(0))
    ELSE numeric_of_cleaned(strip(re_sub({"+", ",", "%"}, py_str(value_str))))

ratio_of_cleaned(cleaned) ==
    IF cleaned = <<>> THEN returns(PyFloat(0, 0))
    ELSE or_fallback(py_float(cleaned), PyFloat(0, 0))

\* StockSupplyDemandCollector.parse_ratio_string
parse_ratio_string(ratio_str) ==
    IF ~truthy(ratio_str) \/ ratio_str = PyStr(NA) THEN returns(PyFloat(0, 0))
    ELSE ratio_of_cleaned(strip(re_sub({"%"}, py_str(ratio_str))))

Numbers ==
    {PyInt(0), PyInt(5), PyInt(-12), PyFloat(0, 0), PyFloat(19, 1), PyFloat(-19, 1),
     PyFloat(12, 0), PyFloat(5, 2), PyNaN, PyInf(1), PyInf(-1)}

NormInputs ==
    {PyNone, PyList(<<>>), PyList(<<"1">>)} \cup Numbers
        \cup {PyStr(s) : s \in Texts} \cup {PyBytes(b) : b \in ByteStrings}

NormInit ==
    /\ \E v \in NormInputs : arg = [kind |-> "value", value |-> v]
    /\ out = NoOut
    /\ NoStore
    /\ NoBatch

SafeIntConvert ==
    /\ out' = [fn |-> "safe_int_convert", result |-> safe_int_convert(arg.value)]
    /\ UNCHANGED <<arg, storeVars, rowids, batchVars>>

SafeFloatConvert ==
    /\ out' = [fn |-> "safe_float_convert", result |-> safe_float_convert(arg.value)]
    /\ UNCHANGED <<arg, storeVars, rowids, batchVars>>

ParseNumericString ==
    /\ out' = [fn |-> "parse_numeric_string",
               result |-> parse_numeric_string(arg.value)]
    /\ UNCHANGED <<arg, storeVars, rowids, batchVars>>

ParseRatioString ==
    /\ out' = [fn |-> "parse_ratio_string", result |-> parse_ratio_string(arg.value)]
    /\ UNCHANGED <<arg, storeVars, rowids, batchVars>>

NormNext ==
    \/ SafeIntConvert
    \/ SafeFloatConvert
    \/ ParseNumericString
    \/ ParseRatioString

SpecNorm == NormInit /\ [][NormNext]_vars

----------------------------------------------------------------------------
(* The record parser: parse_stock_data of data_collector.py and              *)
(* parse_supply_data of collect_stockdemand.py.  A raw item is what one      *)
(* element of the decoded JSON payload can be: a mapping with the fields the *)
(* parser reads, or something that is no mapping.                            *)

MaxItems == 2        \* longest raw_data list handed to a parser

\* a key the mapping does not hold
Absent == [t |-> "absent", f |-> "", n |-> 0, e |-> 0, s |-> <<>>]

CompactDates ==
    {<<"2", "0", "2", "4", "0", "1", "0", "2">>,
     <<"2", "0", "2", "4", "0", "1", "0", "3">>}
ADate == <<"2", "0", "2", "4", "0", "1", "0", "2">>
\* the compact dates of fewer than 8 characters
ShortDates == {SubSeq(ADate, 1, k) : k \in 0..(Len(ADate) - 1)}

\* a quantity as the endpoint writes it
quantity_text(q) ==
    CASE q > 0 -> <<"+">> \o nat_text(q)
      [] q < 0 -> <<"-">> \o nat_text(0 - q)
      [] OTHER -> <<"0">>

\* the raw item of a trading day: compareToPreviousPrice is "object" for a
\* mapping holding 'text', "absent", "null" for JSON null, "text" for a string
RawItem(bizdate, direction, fl) ==
    [mapping |-> TRUE, bizdate |-> bizdate, compareToPreviousPrice |-> direction,
     closePrice |-> Absent, compareToPreviousClosePrice |-> Absent,
     foreignerPureBuyQuant |-> PyStr(quantity_text(fl[1])),
     organPureBuyQuant |-> PyStr(quantity_text(fl[2])),
     individualPureBuyQuant |-> PyStr(quantity_text(fl[3]))]

AFlow == <<1, 1, -1>>
\* an element of the payload that is a string, a number or null
NotAMapping == [RawItem(Absent, "absent", AFlow) EXCEPT !.mapping = FALSE]

WellFormedItems ==
    {RawItem(PyStr(d), dir, fl) :
        d \in CompactDates, dir \in {"object", "absent"}, fl \in {AFlow, <<-1, -1, 1>>}}

MalformedItems ==
    {NotAMapping, RawItem(Absent, "object", AFlow),
     RawItem(PyStr(ADate), "null", AFlow), RawItem(PyStr(ADate), "text", AFlow)}

OddItems ==
    {RawItem(PyStr(d), "object", AFlow) : d \in ShortDates}
        \cup {RawItem(PyInt(20240102), "object", AFlow),
              RawItem(PyStr(ADate \o <<"1">>), "object", AFlow),
              [RawItem(PyStr(ADate), "object", AFlow)
                  EXCEPT !.foreignerPureBuyQuant = PyNaN],
              [RawItem(PyStr(ADate), "object", AFlow)
                  EXCEPT !.organPureBuyQuant = Absent]}

ClosePrices == {0, 1, 2}
PriceChanges == {-1, 0, 1, 2}

\* a well-formed item carrying a closing price and its change on the day
PricedItem(close, delta) ==
    [RawItem(PyStr(ADate), "object", AFlow)
        EXCEPT !.closePrice = PyStr(int_text(close)),
               !.compareToPreviousClosePrice = PyStr(int_text(delta))]

PricedItems == {PricedItem(close, delta) : close \in ClosePrices, delta \in PriceChanges}

RawItems == WellFormedItems \cup MalformedItems \cup OddItems \cup PricedItems

\* value[a:b] on a str
slice(value, a, b) == SubSeq(value, a + 1, Min(b, Len(value)))

\* item.get(k, default)
item_get(item, k, default) == IF item[k] = Absent THEN default ELSE item[k]

\* the converter each class hands its quantities to
to_int(class, value) ==
    IF class = "StockDataCollector" THEN safe_int_convert(value)
    ELSE parse_numeric_string(value)

RECURSIVE Gcd(_, _)
Gcd(a, b) == IF b = 0 THEN a ELSE Gcd(b, a % b)

Abs(a) == IF a < 0 THEN 0 - a ELSE a

\* the number num / den in lowest terms, den positive
quotient(num, den) ==
    [num |-> (IF den < 0 THEN 0 - num ELSE num) \div Gcd(Abs(num), Abs(den)),
     den |-> Abs(den) \div Gcd(Abs(num), Abs(den))]

\* price_change / prev_close * 100 without the test of prev_close
change_rate_unguarded(price_change, prev_close) ==
    IF prev_close # 0 THEN returns(quotient(price_change * 100, prev_close))
    ELSE raises("ZeroDivisionError")

\* (price_change / prev_close * 100) if prev_close != 0 else 0
change_rate(price_change, prev_close) ==
    IF prev_close # 0 THEN returns(quotient(price_change * 100, prev_close))
    ELSE returns(quotient(0, 1))

\* the integer nearest to n / d for d > 0, the even one of two equally near
round_half_even(n, d) ==
    IF 2 * (n % d) < d THEN n \div d
    ELSE IF 2 * (n % d) > d THEN (n \div d) + 1
    ELSE IF (n \div d) % 2 = 0 THEN n \div d ELSE (n \div d) + 1

\* round(x, 2)
round2(x) == quotient(round_half_even(x.num * 100, x.den), 100)

\* a net institutional buy that leaves the institutions out
foreigner_only(f, o) == f

\* foreigner_pure_buy + organ_pure_buy
net_institutional_buy(f, o) == f + o

\* net_institutional_buy + individual_pure_buy
supply_demand_balance(net, n) == net + n

\* the record the class builds; parse_supply_data has no stock_name and does
\* not round change_rate
parsed_item(class, stock, formatted_date, close_price, price_change, rate, f, o, n) ==
    IF class = "StockDataCollector"
    THEN [stock_code |-> stock.code, stock_name |-> stock.name,
          date |-> formatted_date,
          close_price |-> close_price, price_change |-> price_change,
          change_rate |-> round2(rate),
          foreigner_pure_buy |-> f,
          organ_pure_buy |-> o, individual_pure_buy |-> n,
          net_institutional_buy |-> net_institutional_buy(f, o),
          supply_demand_balance |->
              supply_demand_balance(net_institutional_buy(f, o), n)]
    ELSE [stock_code |-> stock.code,
          date |-> formatted_date,
          close_price |-> close_price, price_change |-> price_change,
          change_rate |-> rate,
          foreigner_pure_buy |-> f,
          organ_pure_buy |-> o, individual_pure_buy |-> n,
          net_institutional_buy |-> net_institutional_buy(f, o),
          supply_demand_balance |->
              supply_demand_balance(net_institutional_buy(f, o), n)]

PriceFields == {"closePrice", "compareToPreviousClosePrice"}

QuantityFields ==
    {"foreignerPureBuyQuant", "organPureBuyQuant", "individualPureBuyQuant"}

\* close_price and price_change as the class converts them
prices(class, item) ==
    [q \in PriceFields |-> to_int(class, item_get(item, q, PyInt(0)))]

\* the quantities of an item as the class converts them
quantities(class, item) ==
    [q \in QuantityFields |-> to_int(class, item_get(item, q, PyInt(0)))]

\* f"{date_str[:4]}-{date_str[4:6]}-{date_str[6:8]}"
format_date(date_str) ==
    slice(date_str, 0, 4) \o <<"-">> \o slice(date_str, 4, 6) \o <<"-">>
        \o slice(date_str, 6, 8)

\* the try block from the quantities on, rate what the change_rate line came to
with_rate(class, stock, formatted_date, close_price, price_change, rate, q) ==
    IF rate.raised # "none" THEN rate
    ELSE IF q["foreignerPureBuyQuant"].raised # "none" THEN q["foreignerPureBuyQuant"]
    ELSE IF q["organPureBuyQuant"].raised # "none" THEN q["organPureBuyQuant"]
    ELSE IF q["individualPureBuyQuant"].raised # "none"
         THEN q["individualPureBuyQuant"]
    ELSE returns(parsed_item(class, stock, formatted_date, close_price, price_change,
                             rate.value,
                             q["foreignerPureBuyQuant"].value.n,
                             q["organPureBuyQuant"].value.n,
                             q["individualPureBuyQuant"].value.n))

\* the try block after the date: the prices, the direction label, the rate,
\* then the quantities
built(class, stock, formatted_date, direction, p, q) ==
    IF p["closePrice"].raised # "none" THEN p["closePrice"]
    ELSE IF p["compareToPreviousClosePrice"].raised # "none"
         THEN p["compareToPreviousClosePrice"]
    ELSE IF direction \in {"null", "text"} THEN raises("AttributeError")
    ELSE with_rate(class, stock, formatted_date,
                   p["closePrice"].value.n, p["compareToPreviousClosePrice"].value.n,
                   change_rate(p["compareToPreviousClosePrice"].value.n,
                               p["closePrice"].value.n
                                   - p["compareToPreviousClosePrice"].value.n),
                   q)

\* the body of the try block for one item: the record, or what it raises
try_item(class, stock, item) ==
    IF ~item.mapping THEN raises("TypeError")
    ELSE IF item.bizdate = Absent THEN raises("KeyError")
    ELSE IF item.bizdate.t # "str" THEN raises("TypeError")
    ELSE built(class, stock, format_date(item.bizdate.s),
               item.compareToPreviousPrice, prices(class, item),
               quantities(class, item))

\* the except clause: parse_stock_data formats item.get('bizdate', 'unknown')
\* into its message, parse_supply_data only the exception
handler(class, item) ==
    IF class = "StockDataCollector" /\ ~item.mapping
    THEN raises("AttributeError") ELSE returns(PyNone)

RECURSIVE parse_loop(_, _, _, _, _)
\* one turn of the loop, r what the try block came to
after_item(class, stock, raw_data, k, parsed_data, r) ==
    IF r.raised = "none"
    THEN parse_loop(class, stock, raw_data, k + 1, Append(parsed_data, r.value))
    ELSE IF handler(class, raw_data[k]).raised # "none"
         THEN handler(class, raw_data[k])
    ELSE parse_loop(class, stock, raw_data, k + 1, parsed_data)

\* the for loop over raw_data
parse_loop(class, stock, raw_data, k, parsed_data) ==
    IF k > Len(raw_data) THEN returns(parsed_data)
    ELSE after_item(class, stock, raw_data, k, parsed_data,
                    try_item(class, stock, raw_data[k]))

\* StockDataCollector.parse_stock_data
parse_stock_data(stock, raw_data) ==
    IF raw_data = <<>> THEN returns(<<>>)
    ELSE parse_loop("StockDataCollector", stock, raw_data, 1, <<>>)

\* StockSupplyDemandCollector.parse_supply_data
parse_supply_data(stock, raw_data) ==
    IF raw_data = <<>> THEN returns(<<>>)
    ELSE parse_loop("StockSupplyDemandCollector", stock, raw_data, 1, <<>>)

AStock == [code |-> "A", name |-> "x"]

ParseInit ==
    /\ \E k \in 0..MaxItems : \E raw_data \in [1..k -> RawItems] :
          arg = [kind |-> "raw_data", stock |-> AStock, raw_data |-> raw_data]
    /\ out = NoOut
    /\ NoStore
    /\ NoBatch

ParseStockData ==
    /\ out' = [fn |-> "parse_stock_data",
               result |-> parse_stock_data(arg.stock, arg.raw_data)]
    /\ UNCHANGED <<arg, storeVars, rowids, batchVars>>

ParseSupplyData ==
    /\ out' = [fn |-> "parse_supply_data",
               result |-> parse_supply_data(arg.stock, arg.raw_data)]
    /\ UNCHANGED <<arg, storeVars, rowids, batchVars>>

ParseNext ==
    \/ ParseStockData
    \/ ParseSupplyData

SpecParse == ParseInit /\ [][ParseNext]_vars

----------------------------------------------------------------------------
(* The batch run: collect_all_stocks of StockDataCollector                   *)
(* (data_collector.py) and of StockManager (collect_stockdemand.py) over a   *)
(* fresh store.  The stocks table, which save_stock_info and add_stock       *)
(* write, and the trend table are left out.                                  *)

STOCK_LIST == <<[code |-> "A", name |-> "x"], [code |-> "B", name |-> "z"]>>

\* a loop body that goes on to the fetch without the upsert into stocks
add_stock_skipped(table, stock_info) == table

\* StockManager.add_stock: INSERT OR REPLACE INTO stocks under PRIMARY KEY
\* stock_code; is_active is not among the columns given and takes its
\* DEFAULT 1
add_stock(table, stock_info) ==
    {s \in table : s.stock_code # stock_info.code}
        \cup {[stock_code |-> stock_info.code, stock_name |-> stock_info.name,
                is_active |-> 1]}

\* StockDataCollector.save_stock_info: the same statement for every entry of
\* stock_list, then one commit
RECURSIVE save_stock_info(_, _)
save_stock_info(table, stock_list) ==
    IF stock_list = <<>> THEN table
    ELSE save_stock_info(add_stock(table, Head(stock_list)), Tail(stock_list))

\* the order of two characters of a stored date
char_rank(c) == IF c = "-" THEN 0 ELSE digit(c) + 1

\* a < b as SQLite compares two TEXT values
RECURSIVE text_before(_, _)
text_before(a, b) ==
    IF a = <<>> THEN b # <<>>
    ELSE IF b = <<>> THEN FALSE
    ELSE IF a[1] = b[1] THEN text_before(Tail(a), Tail(b))
    ELSE char_rank(a[1]) < char_rank(b[1])

\* ORDER BY date DESC over rows whose dates are texts
RECURSIVE order_by_date_text_desc(_)
order_by_date_text_desc(rows) ==
    IF rows = {} THEN <<>>
    ELSE LET r == CHOOSE x \in rows : \A y \in rows : ~text_before(x.date, y.date)
         IN  <<r>> \o order_by_date_text_desc(rows \ {r})

\* analyze_supply_trend(stock_code, days=20)
DefaultDays == 20

\* the query of analyze_supply_trend: WHERE stock_code = ? ORDER BY date DESC
\* LIMIT ?
read_recent(table, stock_code, days) ==
    head(order_by_date_text_desc({r \in table : r.stock_code = stock_code}), days)

\* the analysis dict once the three trends and the score are known
snapshot(stock_code, now, f, o, i, ft, ot, it, score) ==
    [stock_code |-> stock_code, analysis_date |-> now, period_type |-> "daily",
     foreigner_total_buy |-> sum(f), organ_total_buy |-> sum(o),
     individual_total_buy |-> sum(i),
     foreigner_continuous_days |-> calculate_continuous_days(f),
     foreigner_buy_trend |-> ft,
     organ_continuous_days |-> calculate_continuous_days(o),
     organ_buy_trend |-> ot,
     individual_continuous_days |-> calculate_continuous_days(i),
     individual_buy_trend |-> it,
     supply_score |-> score,
     recommendation |-> get_recommendation(score)]

scored(stock_code, now, f, o, i, ft, ot, it) ==
    snapshot(stock_code, now, f, o, i, ft, ot, it,
             Collector_calculate_supply_score(ft, ot, it))

\* the three legs of the frame read
analysed(stock_code, now, f, o, i) ==
    scored(stock_code, now, f, o, i, Collector_assess_trend(f),
           Collector_assess_trend(o), Collector_assess_trend(i))

analysis_of_frame(stock_code, now, df) ==
    IF df = <<>> THEN NoAnalysis
    ELSE analysed(stock_code, now, column(df, "foreigner_pure_buy"),
                  column(df, "organ_pure_buy"), column(df, "individual_pure_buy"))

\* StockSupplyDemandCollector.analyze_supply_trend: None for an empty frame
analyze_supply_trend(table, stock_code, days, now) ==
    analysis_of_frame(stock_code, now, read_recent(table, stock_code, days))

trend_key(a) == <<a.stock_code, a.analysis_date, a.period_type>>

\* an upsert that adds the totals of the snapshot it finds to the new one
save_trend_analysis_merged(table, analysis) ==
    IF analysis = NoAnalysis THEN table
    ELSE {[analysis EXCEPT !.foreigner_total_buy =
                @ + sum_rows({a \in table : trend_key(a) = trend_key(analysis)},
                             "foreigner_total_buy")]}
            \cup {a \in table : trend_key(a) # trend_key(analysis)}

\* StockSupplyDemandCollector.save_trend_analysis: INSERT OR REPLACE under
\* UNIQUE(stock_code, analysis_date, period_type)
save_trend_analysis(table, analysis) ==
    IF analysis = NoAnalysis THEN table
    ELSE {a \in table : trend_key(a) # trend_key(analysis)} \cup {analysis}

\* the table analyze_supply_trend reads had it run ahead of save_supply_data
analysed_before(before, after) == before

\* collect_stock_data: analyze_supply_trend runs after save_supply_data, on
\* the table the save left
analysed_table(before, after) == after

\* what response.json() may hand back for one security
Payloads ==
    {<<>>,
     <<RawItem(PyStr(ADate), "object", AFlow)>>,
     <<RawItem(PyStr(ADate), "object", AFlow),
       RawItem(PyStr(ADate), "object", <<-1, -1, 1>>)>>,
     <<RawItem(Absent, "object", AFlow),
       RawItem(PyStr(<<"2", "0", "2", "4", "0", "1", "0", "3">>), "object", AFlow)>>,
     <<NotAMapping, RawItem(PyStr(ADate), "object", AFlow)>>}

\* fetch_stock_data / fetch_supply_data: the decoded payload, or None after a
\* timeout, an HTTP error status or a body that is no JSON
FetchResults ==
    {[raw_data |-> PyNone]} \cup {[raw_data |-> PyList(p)] : p \in Payloads}

\* where collect_all_stocks of a class begins: save_stock_info comes ahead of
\* the loop of StockDataCollector
first_pc(class) == IF class = "StockDataCollector" THEN "start" ELSE "fetch"

BatchInit ==
    /\ impl \in {"StockDataCollector", "StockManager"}
    /\ pc = first_pc(impl)
    /\ stock_no = 1
    /\ all_data = <<>>
    /\ events = <<>>
    /\ stocks = {}
    /\ trend_analysis = {}
    /\ today = 1
    /\ NoStore
    /\ arg = NoArg
    /\ out = NoOut

running == pc \in {"start", "fetch", "sleep", "save"}

event(ev, stock, raw_data, parsed, failed, analysis) ==
    [ev |-> ev, code |-> stock.code, raw_data |-> raw_data, parsed |-> parsed,
     failed |-> failed, analysis |-> analysis]

\* a loop that sleeps in the branch of a payload only
after_fetch_on_data(raw_data) == IF truthy(raw_data) THEN "sleep" ELSE "fetch"

\* time.sleep(delay) is the statement after the if / else on raw_data
after_fetch(raw_data) == "sleep"

\* StockDataCollector.collect_all_stocks: self.save_stock_info(stock_list)
CollectorStart ==
    /\ pc = "start"
    /\ stocks' = save_stock_info(stocks, STOCK_LIST)
    /\ pc' = "fetch"
    /\ UNCHANGED <<impl, stock_no, all_data, events, trend_analysis, today,
                   storeVars, rowids, pureVars>>

\* StockDataCollector.collect_all_stocks, the loop body up to the sleep
CollectorFetch ==
    /\ impl = "StockDataCollector"
    /\ pc = "fetch"
    /\ \E r \in FetchResults :
        \E parsed \in {IF truthy(r.raw_data)
                       THEN parse_stock_data(STOCK_LIST[stock_no], r.raw_data.s)
                       ELSE returns(<<>>)} :
            /\ events' = Append(events,
                                event("fetch", STOCK_LIST[stock_no], r.raw_data,
                                      IF parsed.raised = "none" THEN parsed.value
                                      ELSE <<>>, {}, NoAnalysis))
            /\ IF parsed.raised = "none"
               THEN /\ all_data' = all_data \o parsed.value
                    /\ pc' = after_fetch(r.raw_data)
               ELSE /\ all_data' = all_data
                    /\ pc' = "raised"
    /\ UNCHANGED <<impl, stock_no, stocks, trend_analysis, today, storeVars, rowids,
                   pureVars>>

\* StockManager.collect_all_stocks, the loop body up to the sleep: add_stock,
\* then collect_stock_data fetches, parses, saves, analyses and saves the
\* snapshot
ManagerFetch ==
    /\ impl = "StockManager"
    /\ pc = "fetch"
    /\ stocks' = add_stock(stocks, STOCK_LIST[stock_no])
    /\ \E r \in FetchResults :
        \E supply_data \in {IF truthy(r.raw_data)
                            THEN parse_supply_data(STOCK_LIST[stock_no],
                                                   r.raw_data.s).value
                            ELSE <<>>} :
            \E failed \in SUBSET DOMAIN supply_data :
                \E analysis \in
                    {IF truthy(r.raw_data)
                     THEN analyze_supply_trend(
                              analysed_table(supply,
                                             save_stock_data(supply, supply_data, failed)),
                              STOCK_LIST[stock_no].code, DefaultDays, today)
                     ELSE NoAnalysis} :
                    /\ events' = Append(events,
                                        event("fetch", STOCK_LIST[stock_no], r.raw_data,
                                              supply_data, failed, analysis))
                    /\ supply' = save_stock_data(supply, supply_data, failed)
                    /\ trend_analysis' = save_trend_analysis(trend_analysis, analysis)
                    /\ ret' = IF supply_data = <<>> THEN ret
                              ELSE [op |-> "save_supply_data",
                                    saved_count |-> saved_count(supply_data, failed, 1),
                                    stock_data_list |-> supply_data,
                                    failed |-> failed, before |-> supply,
                                    snapshots |-> trend_analysis]
                    /\ pc' = after_fetch(r.raw_data)
    /\ UNCHANGED <<impl, stock_no, all_data, today, last_write, rowids, pureVars>>

\* time.sleep(delay), then the next security or the end of the loop
Sleep ==
    /\ pc = "sleep"
    /\ events' = Append(events, event("sleep", STOCK_LIST[stock_no], PyNone, <<>>, {},
                                      NoAnalysis))
    /\ stock_no' = stock_no + 1
    /\ pc' = IF stock_no < Len(STOCK_LIST) THEN "fetch"
             ELSE IF impl = "StockDataCollector" THEN "save" ELSE "done"
    /\ UNCHANGED <<impl, all_data, stocks, trend_analysis, today, storeVars, rowids,
                   pureVars>>

\* StockDataCollector.collect_all_stocks: self.save_stock_data(all_data)
CollectorSave ==
    /\ pc = "save"
    /\ \E failed \in SUBSET DOMAIN all_data :
        /\ supply' = save_stock_data(supply, all_data, failed)
        /\ ret' = IF all_data = <<>> THEN ret
                  ELSE [op |-> "save_stock_data",
                        saved_count |-> saved_count(all_data, failed, 1),
                        stock_data_list |-> all_data,
                        failed |-> failed, before |-> supply]
    /\ pc' = "done"
    /\ UNCHANGED <<impl, stock_no, all_data, events, stocks, trend_analysis, today,
                   last_write, rowids, pureVars>>

\* the process is killed between two steps of the run
Abort ==
    /\ running
    /\ pc' = "aborted"
    /\ UNCHANGED <<impl, stock_no, all_data, events, stocks, trend_analysis, today,
                   storeVars, rowids, pureVars>>

BatchNext ==
    \/ CollectorStart
    \/ CollectorFetch
    \/ ManagerFetch
    \/ Sleep
    \/ CollectorSave
    \/ Abort

SpecBatch == BatchInit /\ [][BatchNext]_vars

\* the entries a universe list may hold: a security under either of two names
Universe == {[code |-> c, name |-> n] : c \in {"A", "B"}, n \in {"x", "z"}}

MaxList == 2         \* longest stock_list handed to save_stock_info

StockLists == UNION {[1..k -> Universe] : k \in 0..MaxList}

\* the tables stocks may be found in: PRIMARY KEY stock_code, is_active 1 or,
\* for a security someone deactivated, 0
StockTables ==
    {t \in SUBSET {[stock_code |-> e.code, stock_name |-> e.name, is_active |-> a] :
                      e \in Universe, a \in {0, 1}} :
        \A s \in t, q \in t : s.stock_code = q.stock_code => s = q}

UniverseInit ==
    /\ stocks \in StockTables
    /\ NoStore
    /\ arg = NoArg
    /\ out = NoOut
    /\ impl = "none"
    /\ pc = "none"
    /\ stock_no = 0
    /\ all_data = <<>>
    /\ events = <<>>
    /\ trend_analysis = {}
    /\ today = 1

\* StockDataCollector.save_stock_info(stock_list)
SaveStockInfo ==
    /\ \E stock_list \in StockLists :
        /\ stocks' = save_stock_info(stocks, stock_list)
        /\ ret' = [op |-> "save_stock_info", before |-> stocks]
    /\ UNCHANGED <<supply, last_write, rowids, pureVars, impl, pc, stock_no, all_data,
                   events, trend_analysis, today>>

\* StockManager.add_stock(stock_info)
AddStock ==
    /\ \E stock_info \in Universe :
        /\ stocks' = add_stock(stocks, stock_info)
        /\ ret' = [op |-> "add_stock", before |-> stocks]
    /\ UNCHANGED <<supply, last_write, rowids, pureVars, impl, pc, stock_no, all_data,
                   events, trend_analysis, today>>

UniverseNext ==
    \/ SaveStockInfo
    \/ AddStock

SpecUniverse == UniverseInit /\ [][UniverseNext]_vars

LastDay == 2         \* days the reruns stretch over

\* the program is started again on the database the run before left, the same
\* day or the next
Rerun ==
    /\ pc \in {"done", "aborted", "raised"}
    /\ pc' = first_pc(impl)
    /\ stock_no' = 1
    /\ all_data' = <<>>
    /\ events' = <<>>
    /\ ret' = NoRet
    /\ today' \in {today, Min(today + 1, LastDay)}
    /\ UNCHANGED <<impl, supply, stocks, trend_analysis, last_write, rowids, pureVars>>

ReingestNext ==
    \/ BatchNext
    \/ Rerun

SpecReingest == BatchInit /\ [][ReingestNext]_vars

----------------------------------------------------------------------------
(* Claims about the store and the favorites ranker *)

\* C1: after any sequence of upserts the store holds at most one row per
\* (stock_code, date), and that row carries the values of the most recent
\* upsert of the key; the same key upserted twice leaves one row, the second.
C1_LastWriteWins ==
    \A k \in Keys :
        LET held == {r \in supply : r.stock_code = k[1] /\ r.date = k[2]} IN
        /\ Cardinality(held) <= 1
        /\ held = IF last_write[k].stock_code = "none" THEN {} ELSE {last_write[k]}

\* a call that upserted two records and left one row: the same key twice
C1_Witness ==
    /\ ret.op = "save_stock_data"
    /\ ret.saved_count = 2
    /\ Cardinality(supply) = 1

\* C9: find_institutional_favorites returns a security if and only if the sums
\* of its foreign and of its institutional net buys over its records inside
\* the lookback window are both strictly positive and its score recomputed by
\* calculate_supply_trend is at least min_score.
C9_InWindow(c, days) == {r \in supply : r.stock_code = c /\ r.date >= Today - days}

C9_Qualifies(c, days, min_score) ==
    /\ sum_rows(C9_InWindow(c, days), "foreigner_pure_buy") > 0
    /\ sum_rows(C9_InWindow(c, days), "organ_pure_buy") > 0
    /\ calculate_supply_trend(supply, c, 5).supply_score >= min_score

C9_FavoritesIff ==
    ret.op = "find_institutional_favorites" =>
        \A c \in Codes :
            (\E k \in DOMAIN ret.results : ret.results[k].stock_code = c)
                <=> (C9_InWindow(c, ret.days) # {}
                     /\ C9_Qualifies(c, ret.days, ret.min_score))

\* C10: the rows find_institutional_favorites returns are in non-increasing
\* order of foreign total + institutional total.
C10_OrderedByTotal ==
    ret.op = "find_institutional_favorites" =>
        \A i \in DOMAIN ret.results : \A j \in DOMAIN ret.results :
            i < j => ret.results[i].foreigner_total_buy + ret.results[i].organ_total_buy
                       >= ret.results[j].foreigner_total_buy + ret.results[j].organ_total_buy

\* two rows returned, the first with the strictly larger combined total
C10_Witness ==
    /\ ret.op = "find_institutional_favorites"
    /\ Len(ret.results) = 2
    /\ ret.results[1].total_institutional_buy > ret.results[2].total_institutional_buy
    /\ ret.results[1].stock_code # ret.results[2].stock_code

----------------------------------------------------------------------------
(* Claims about the pure functions *)

ScoreFns == {"StockAnalyzer.calculate_supply_score",
             "StockSupplyDemandCollector.calculate_supply_score"}
TrendFns == {"StockAnalyzer.assess_trend", "StockSupplyDemandCollector.assess_trend"}

\* C2: for each of the 5x5x5 label triples calculate_supply_score (either
\* class) returns an integer in the closed range 0..100.
C2_ScoreInRange ==
    out.fn \in ScoreFns => out.n \in 0..100

C2_Witness ==
    /\ out.fn = "StockAnalyzer.calculate_supply_score"
    /\ arg.trends = <<"strong_sell", "strong_sell", "strong_buy">>
    /\ out.n = 0

\* C3: for each label triple the score is
\* 50 + 0.40*(M(foreign)-50) + 0.40*(M(institutional)-50) + 0.20*(Minv(individual)-50)
\* truncated once at the end; (strong_buy, strong_buy, strong_sell) gives 100
\* and (neutral, neutral, neutral) gives 50.
C3_M ==
    [l \in Labels |-> IF l = "strong_buy" THEN 100 ELSE IF l = "buy" THEN 75
                      ELSE IF l = "neutral" THEN 50 ELSE IF l = "sell" THEN 25 ELSE 0]

C3_Minv == [l \in Labels |-> 100 - C3_M[l]]

C3_Tenths(t) ==
    500 + 4 * (C3_M[t[1]] - 50) + 4 * (C3_M[t[2]] - 50) + 2 * (C3_Minv[t[3]] - 50)

C3_ScoreFormula ==
    out.fn \in ScoreFns =>
        /\ C3_Tenths(arg.trends) >= 0
        /\ out.n = C3_Tenths(arg.trends) \div 10
        /\ arg.trends = <<"strong_buy", "strong_buy", "strong_sell">> => out.n = 100
        /\ arg.trends = <<"neutral", "neutral", "neutral">> => out.n = 50

C3_Witness ==
    /\ out.fn = "StockSupplyDemandCollector.calculate_supply_score"
    /\ arg.trends = <<"strong_buy", "strong_buy", "strong_sell">>
    /\ out.n = 100

\* C4: the recommendation is a function of the score alone: >= 80 strong_buy,
\* 60..79 buy, 40..59 hold, 20..39 sell, below 20 strong_sell; the
\* recommendation of an analysis result is this mapping of its supply_score.
C4_RecommendationOfScore ==
    out.fn \in ScoreFns \cup {"get_recommendation"} =>
        /\ out.label = "strong_buy" <=> out.n >= 80
        /\ out.label = "buy" <=> out.n \in 60..79
        /\ out.label = "hold" <=> out.n \in 40..59
        /\ out.label = "sell" <=> out.n \in 20..39
        /\ out.label = "strong_sell" <=> out.n < 20

C4_Witness ==
    /\ out.fn = "get_recommendation"
    /\ out.n = 80
    /\ out.label = "strong_buy"

\* C5: calculate_continuous_days is 0 for an empty series or a first element
\* of exactly zero, and otherwise sign(first) times the length of the longest
\* prefix whose elements all have the sign of the first; [] -> 0,
\* [0,5,5] -> 0, [3,2,1,-1] -> 3, [-1,-2,3] -> -2, [100,50,30,-10,20] -> 3.
C5_SameSign(a, b) == (a > 0 /\ b > 0) \/ (a < 0 /\ b < 0)

C5_PrefixLen(data) ==
    CHOOSE k \in 1..Len(data) :
        /\ \A j \in 1..k : C5_SameSign(data[j], data[1])
        /\ k < Len(data) => ~C5_SameSign(data[k + 1], data[1])

C5_Streak(data) ==
    IF data = <<>> THEN 0
    ELSE IF data[1] = 0 THEN 0
    ELSE IF data[1] > 0 THEN C5_PrefixLen(data) ELSE 0 - C5_PrefixLen(data)

C5_ContinuousDays ==
    out.fn = "calculate_continuous_days" =>
        /\ out.n = C5_Streak(arg.data)
        /\ arg.data = <<>> => out.n = 0
        /\ arg.data = <<0, 5, 5>> => out.n = 0
        /\ arg.data = <<3, 2, 1, -1>> => out.n = 3
        /\ arg.data = <<-1, -2, 3>> => out.n = -2
        /\ arg.data = <<100, 50, 30, -10, 20>> => out.n = 3

C5_Witness ==
    /\ out.fn = "calculate_continuous_days"
    /\ arg.data = <<-1, -2, 3>>
    /\ out.n = -2

\* C6: the trend classifier returns neutral whenever fewer than 3 values are
\* available, in StockAnalyzer.assess_trend and in
\* StockSupplyDemandCollector.assess_trend alike.
C6_FewerThanThreeNeutral ==
    (out.fn \in TrendFns /\ Len(arg.data) < 3) => out.label = "neutral"

\* C7: two windows that agree on their first 5 positions get the same label,
\* for every window length and every window parameter of calculate_supply_trend.
C7_FirstFiveDecide ==
    out.fn \in {"StockAnalyzer.calculate_supply_trend",
                "StockSupplyDemandCollector.analyze_supply_trend"} =>
        out.label = out.label2

\* C8: for a window of exactly 5 values the label is strong_buy iff all 5 are
\* positive, buy iff exactly 4 are positive, strong_sell iff all 5 are
\* negative, sell iff exactly 4 are negative, neutral otherwise;
\* [100,50,30,-10,20] is buy.
C8_Pos(data) == Cardinality({k \in 1..5 : data[k] >= 1})
C8_Neg(data) == Cardinality({k \in 1..5 : data[k] <= -1})

C8_WindowOfFive ==
    (out.fn \in TrendFns /\ Len(arg.data) = 5) =>
        /\ out.label = "strong_buy" <=> C8_Pos(arg.data) = 5
        /\ out.label = "buy" <=> C8_Pos(arg.data) = 4
        /\ out.label = "strong_sell" <=> C8_Neg(arg.data) = 5
        /\ out.label = "sell" <=> C8_Neg(arg.data) = 4
        /\ out.label = "neutral" <=> (C8_Pos(arg.data) < 4 /\ C8_Neg(arg.data) < 4)
        /\ arg.data = <<100, 50, 30, -10, 20>> => out.label = "buy"

C8_Witness ==
    /\ out.fn = "StockAnalyzer.assess_trend"
    /\ arg.data = <<100, 50, 30, -10, 20>>
    /\ out.label = "buy"

----------------------------------------------------------------------------
\* C11: favorites candidates of equal combined total come out in the order
\* they were inserted in: whenever two entries of a returned frame, of two
\* securities, have equal total_institutional_buy, the later entry's rows
\* were not all inserted before the earlier entry's rows.
C11_Position(k) == CHOOSE n \in DOMAIN rowids : rowids[n] = k

C11_Rows(entry, days) ==
    {r \in supply : /\ r.stock_code = entry.stock_code
                    /\ r.stock_name = entry.stock_name
                    /\ r.date >= Today - days}

C11_InsertedBefore(a, b, days) ==
    \A r \in C11_Rows(a, days), q \in C11_Rows(b, days) :
        C11_Position(key(r)) < C11_Position(key(q))

C11_StableTieBreak ==
    ret.op = "find_institutional_favorites" =>
        \A j \in DOMAIN ret.results, k \in DOMAIN ret.results :
            (/\ j < k
             /\ ret.results[j].stock_code # ret.results[k].stock_code
             /\ ret.results[j].total_institutional_buy
                    = ret.results[k].total_institutional_buy)
                => ~C11_InsertedBefore(ret.results[k], ret.results[j], ret.days)

----------------------------------------------------------------------------
NormFns == {"safe_int_convert", "safe_float_convert", "parse_numeric_string",
            "parse_ratio_string"}

\* C12: the normalizer is total: whatever the kind of the input, each of the
\* four functions returns a value and raises nothing to its caller.
C12_NeverRaises == out.fn \in NormFns => out.result.raised = "none"

\* the rule for text: drop every ',', a leading '+' and, for a ratio, every
\* '%'; a leading '-' is the sign; the rest is parsed, digits for an integer,
\* digits around at most one point for a ratio; anything else is zero
C13_Rule(text, ratio) ==
    LET plain == re_sub(IF ratio THEN {",", "%"} ELSE {","}, text)
        unsigned == IF startswith(plain, "+") THEN Tail(plain) ELSE plain
        negative == startswith(unsigned, "-")
        rest == IF negative THEN Tail(unsigned) ELSE unsigned
        points == {k \in DOMAIN rest : rest[k] = "."}
        point == IF points = {} THEN Len(rest) + 1 ELSE CHOOSE k \in points : TRUE
        whole == SubSeq(rest, 1, point - 1)
        fraction == SubSeq(rest, point + 1, Len(rest))
        sign == IF negative THEN -1 ELSE 1
    IN  IF ratio
        THEN IF /\ Cardinality(points) <= 1
                /\ all_digits(whole) /\ all_digits(fraction)
                /\ whole \o fraction # <<>>
             THEN PyFloat(sign * digits_value(whole \o fraction), Len(fraction))
             ELSE PyFloat(0, 0)
        ELSE IF rest # <<>> /\ all_digits(rest)
             THEN PyInt(sign * digits_value(rest))
             ELSE PyInt(0)

\* C13: on a text without blanks, the integer converters return what the
\* rule gives for an integer and the ratio converters what it gives for a
\* ratio; so "1,234" is 1234, "1+2" is 0 and "1,234.5%" is 1234.5.
C13_TextRule ==
    (/\ out.fn \in NormFns
     /\ arg.value.t = "str"
     /\ \A k \in DOMAIN arg.value.s : arg.value.s[k] # " ")
        => out.result =
              returns(C13_Rule(arg.value.s,
                               out.fn \in {"safe_float_convert", "parse_ratio_string"}))

C14_Apply(fn, value) ==
    CASE fn = "safe_int_convert" -> safe_int_convert(value)
      [] fn = "safe_float_convert" -> safe_float_convert(value)
      [] fn = "parse_numeric_string" -> parse_numeric_string(value)
      [] fn = "parse_ratio_string" -> parse_ratio_string(value)

\* C14: bytes normalize as their UTF-8 text does: for a byte string that
\* decodes, each function returns what it returns for the decoded text; for
\* one that does not decode, it returns what it returns for None, the zero
\* fallback.
C14_BytesAsText ==
    (out.fn \in NormFns /\ arg.value.t = "bytes")
        => out.result =
              IF decode(arg.value.s).ok
              THEN C14_Apply(out.fn, PyStr(decode(arg.value.s).s))
              ELSE C14_Apply(out.fn, PyNone)

----------------------------------------------------------------------------
ParseFns == {"parse_stock_data", "parse_supply_data"}

C15_Shaped(date) == Len(date) = 10 /\ date[5] = "-" /\ date[8] = "-"

\* C15: no record comes out of a parser with a date that is not of the shape
\* YYYY-MM-DD: a raw record whose compact date has fewer than 8 characters is
\* dropped.
C15_ShortDateDropped ==
    (out.fn \in ParseFns /\ out.result.raised = "none")
        => \A k \in DOMAIN out.result.value : C15_Shaped(out.result.value[k].date)

\* the items the fail-soft contract speaks of: well-formed ones, and ones
\* without a date, that are no mapping, or whose direction label is null or
\* no object
C16_Listed(raw_data) ==
    \A k \in DOMAIN raw_data : raw_data[k] \in WellFormedItems \cup MalformedItems

RECURSIVE C16_Siblings(_, _, _)
C16_Siblings(fn, stock, raw_data) ==
    IF raw_data = <<>> THEN <<>>
    ELSE (IF Head(raw_data) \in WellFormedItems
          THEN <<try_item(IF fn = "parse_stock_data" THEN "StockDataCollector"
                          ELSE "StockSupplyDemandCollector",
                          stock, Head(raw_data)).value>>
          ELSE <<>>)
         \o C16_Siblings(fn, stock, Tail(raw_data))

\* C16: parsing is fail-soft per record: of a batch of well-formed and
\* malformed raw records the parser returns the records of the well-formed
\* ones, in their order, and raises nothing.
C16_FailSoft ==
    (out.fn \in ParseFns /\ C16_Listed(arg.raw_data))
        => out.result = returns(C16_Siblings(out.fn, arg.stock, arg.raw_data))

----------------------------------------------------------------------------
(* Claims about the batch run *)

BatchFetches == SelectSeq(events, LAMBDA e : e.ev = "fetch")

\* the rows the run holds of security c
BatchRowsOf(c) == {r \in supply : r.stock_code = c}

\* C17: in a batch run a fetch failure for one security (timeout, HTTP error,
\* malformed payload) lets no exception escape the loop, and a run that ends
\* has attempted every security of the list exactly once and in list order,
\* holds no row of a security whose fetch failed, and holds a row for every
\* record parsed from the other securities whose upsert went through.
C17_FetchIsolation ==
    /\ pc # "raised"
    /\ pc = "done" =>
        /\ Len(BatchFetches) = Len(STOCK_LIST)
        /\ \A k \in DOMAIN BatchFetches :
            /\ BatchFetches[k].code = STOCK_LIST[k].code
            /\ ~truthy(BatchFetches[k].raw_data)
                   => BatchRowsOf(BatchFetches[k].code) = {}
            /\ impl = "StockManager" =>
                   \A j \in DOMAIN BatchFetches[k].parsed \ BatchFetches[k].failed :
                       \E r \in supply : key(r) = key(BatchFetches[k].parsed[j])

\* C18: when a batch run is aborted, the records of every security fetched
\* and parsed so far are in the store already: no commit waits for the end of
\* the batch.
C18_PartialProgressDurable ==
    pc = "aborted" =>
        \A k \in DOMAIN BatchFetches :
            \A j \in DOMAIN BatchFetches[k].parsed \ BatchFetches[k].failed :
                \E r \in supply : key(r) = key(BatchFetches[k].parsed[j])

\* C19: the events of a batch run are fetch(s1), sleep, fetch(s2), sleep, ...
\* in list order, one fetch at a time and a sleep between any two fetches,
\* whether the fetch before succeeded, failed or returned no data.
C19_FetchSleepAlternation ==
    \A k \in DOMAIN events :
        /\ (k + 1) \div 2 <= Len(STOCK_LIST)
        /\ events[k].ev = IF k % 2 = 1 THEN "fetch" ELSE "sleep"
        /\ events[k].code = STOCK_LIST[(k + 1) \div 2].code

\* a failed fetch and a fetch of an empty payload, each followed by its sleep
C19_Witness ==
    /\ Len(events) = 4
    /\ events[1].raw_data = PyNone
    /\ events[2].ev = "sleep"
    /\ events[3].raw_data = PyList(<<>>)
    /\ events[4].ev = "sleep"

C20_Saved == DOMAIN ret.stock_data_list \ ret.failed

\* C20: a record whose upsert raises in save_stock_data / save_supply_data is
\* the only record skipped: every other record of the list is upserted (the
\* last one of a key stays), rows of other keys stay as they were, the call
\* returns, and saved_count is the number of upserts that went through.
C20_FailureSkipsOneRecord ==
    ret.op \in {"save_stock_data", "save_supply_data"} =>
        /\ pc \in {"sleep", "fetch", "done", "aborted"}
        /\ ret.saved_count = Cardinality(C20_Saved)
        /\ \A j \in C20_Saved :
               last_in_batch(ret.stock_data_list, ret.failed,
                             key(ret.stock_data_list[j])) \in supply
        /\ \A r \in ret.before :
               (\A j \in C20_Saved : key(ret.stock_data_list[j]) # key(r))
                   => r \in supply
        /\ \A r \in supply :
               \/ r \in ret.before
               \/ \E j \in C20_Saved : r = ret.stock_data_list[j]

\* a call whose first upsert raised and whose second went through
C20_Witness ==
    /\ ret.op \in {"save_stock_data", "save_supply_data"}
    /\ ret.failed = {1}
    /\ Len(ret.stock_data_list) >= 2
    /\ ret.stock_data_list[2] \in supply
    /\ ret.saved_count = Len(ret.stock_data_list) - 1

----------------------------------------------------------------------------
(* Claims about the derived fields of a record *)

\* the call parsed items that carry a closing price and its change only
C21_Priced ==
    /\ out.fn \in ParseFns
    /\ arg.raw_data # <<>>
    /\ \A k \in DOMAIN arg.raw_data : arg.raw_data[k] \in PricedItems

\* rate is delta / prev * 100 to the hundredth the record keeps, 0 for prev = 0
C21_Is(rate, delta, prev) ==
    IF prev = 0 THEN rate.num = 0
    ELSE 200 * Abs(rate.num * prev - 100 * delta * rate.den) <= Abs(rate.den * prev)

\* C21: for every pair of normalized close and delta the parser computes the
\* percent change delta / (close - delta) * 100 when close - delta is not 0
\* and 0 when it is; a zero denominator drops no record and raises nothing.
C21_PercentChange ==
    C21_Priced =>
        /\ out.result.raised = "none"
        /\ Len(out.result.value) = Len(arg.raw_data)
        /\ \A k \in DOMAIN arg.raw_data :
               \A close \in ClosePrices, delta \in PriceChanges :
                   arg.raw_data[k] = PricedItem(close, delta) =>
                       /\ out.result.value[k].close_price = close
                       /\ out.result.value[k].price_change = delta
                       /\ C21_Is(out.result.value[k].change_rate, delta, close - delta)

\* a payload of an item with close = delta and one of a third of a percent
C21_Witness ==
    /\ out.fn = "parse_stock_data"
    /\ arg.raw_data = <<PricedItem(1, 1), PricedItem(2, -1)>>
    /\ Len(out.result.value) = 2
    /\ out.result.value[1].change_rate = quotient(0, 1)
    /\ out.result.value[2].change_rate = quotient(-3333, 100)

\* C22: every row written through a parser and a save satisfies
\* net_institutional_buy = foreigner_pure_buy + organ_pure_buy and
\* supply_demand_balance = net_institutional_buy + individual_pure_buy, also
\* after runs that replace rows.
C22_DerivedFields ==
    \A r \in supply :
        /\ r.net_institutional_buy = r.foreigner_pure_buy + r.organ_pure_buy
        /\ r.supply_demand_balance = r.net_institutional_buy + r.individual_pure_buy

\* a save that replaced the row of an earlier run by one of other quantities
C22_Witness ==
    /\ ret.op \in {"save_stock_data", "save_supply_data"}
    /\ \E r \in ret.before :
           \E j \in DOMAIN ret.stock_data_list \ ret.failed :
               /\ key(ret.stock_data_list[j]) = key(r)
               /\ ret.stock_data_list[j].foreigner_pure_buy # r.foreigner_pure_buy
               /\ ret.stock_data_list[j] \in supply

----------------------------------------------------------------------------
(* Further claims about the score and the classifiers *)

\* the score before max / min / int, as numerator and denominator
C27_Raw ==
    IF out.fn = "StockAnalyzer.calculate_supply_score"
    THEN [num |-> Analyzer_score(arg.trends[1], arg.trends[2], arg.trends[3]),
          den |-> 10]
    ELSE [num |-> Collector_score(arg.trends[1], arg.trends[2], arg.trends[3]),
          den |-> 100]

C27_Steps == {5 * k : k \in 0..20}

\* C27: for every label triple the score before the clamp and the truncation
\* is an integer multiple of 5 in 0..100 already, so neither changes it, and
\* the scores that label triples reach are exactly 0, 5, ..., 100.
C27_ClampIdle ==
    out.fn \in ScoreFns =>
        /\ C27_Raw.num % (5 * C27_Raw.den) = 0
        /\ C27_Raw.num >= 0
        /\ C27_Raw.num <= 100 * C27_Raw.den
        /\ out.n * C27_Raw.den = C27_Raw.num
        /\ out.n \in C27_Steps
        /\ \A v \in C27_Steps :
               \E f \in Labels, o \in Labels, i \in Labels :
                   /\ Analyzer_calculate_supply_score(f, o, i) = v
                   /\ Collector_calculate_supply_score(f, o, i) = v

C27_Witness ==
    /\ out.fn = "StockAnalyzer.calculate_supply_score"
    /\ arg.trends = <<"buy", "sell", "buy">>
    /\ out.n = 45

\* the label one step up the order strong_sell < sell < neutral < buy < strong_buy
C28_Up(l) ==
    CASE l = "strong_sell" -> "sell" [] l = "sell" -> "neutral"
      [] l = "neutral" -> "buy" [] l = "buy" -> "strong_buy"

C28_Score(fn, f, o, i) ==
    IF fn = "StockAnalyzer.calculate_supply_score"
    THEN Analyzer_calculate_supply_score(f, o, i)
    ELSE Collector_calculate_supply_score(f, o, i)

\* C28: one step up of the foreign or of the institutional label raises the
\* score by exactly 10, one step up of the individual label lowers it by
\* exactly 5, and swapping the foreign and institutional labels changes nothing.
C28_Contrarian ==
    out.fn \in ScoreFns =>
        /\ arg.trends[1] # "strong_buy" =>
               C28_Score(out.fn, C28_Up(arg.trends[1]), arg.trends[2], arg.trends[3])
                   = out.n + 10
        /\ arg.trends[2] # "strong_buy" =>
               C28_Score(out.fn, arg.trends[1], C28_Up(arg.trends[2]), arg.trends[3])
                   = out.n + 10
        /\ arg.trends[3] # "strong_buy" =>
               C28_Score(out.fn, arg.trends[1], arg.trends[2], C28_Up(arg.trends[3]))
                   = out.n - 5
        /\ C28_Score(out.fn, arg.trends[2], arg.trends[1], arg.trends[3]) = out.n

C28_Witness ==
    /\ out.fn = "StockSupplyDemandCollector.calculate_supply_score"
    /\ arg.trends = <<"sell", "buy", "neutral">>
    /\ out.n = 50

\* C29: for every series of at least 5 values handed to both
\* calculate_continuous_days and assess_trend, as analyze_supply_trend does
\* per leg, the label is strong_buy iff the streak is >= 5 and strong_sell iff
\* it is <= -5; a streak >= 4 gives buy or strong_buy, a streak <= -4 sell or
\* strong_sell.
C29_StreakAndLabel ==
    (/\ out.fn = "StockSupplyDemandCollector.analyze_supply_trend.leg"
     /\ Len(arg.data) >= 5) =>
        /\ out.label = "strong_buy" <=> out.n >= 5
        /\ out.label = "strong_sell" <=> out.n <= -5
        /\ out.n >= 4 => out.label \in {"buy", "strong_buy"}
        /\ out.n <= -4 => out.label \in {"sell", "strong_sell"}

\* a streak of four that the fifth value breaks, in a series of six
C29_Witness ==
    /\ out.fn = "StockSupplyDemandCollector.analyze_supply_trend.leg"
    /\ arg.data = <<-1, -1, -1, -1, 1, -1>>
    /\ out.n = -4
    /\ out.label = "sell"

----------------------------------------------------------------------------
\* C30: each security code appears at most once in what
\* find_institutional_favorites returns, and its totals are the sums over all
\* of the security's records in the lookback window, also when the records of
\* different dates carry different display names.
C30_OncePerCode ==
    ret.op = "find_institutional_favorites" =>
        /\ \A j \in DOMAIN ret.results, k \in DOMAIN ret.results :
               ret.results[j].stock_code = ret.results[k].stock_code => j = k
        /\ \A k \in DOMAIN ret.results :
               /\ ret.results[k].foreigner_total_buy =
                      sum_rows(C9_InWindow(ret.results[k].stock_code, ret.days),
                               "foreigner_pure_buy")
               /\ ret.results[k].organ_total_buy =
                      sum_rows(C9_InWindow(ret.results[k].stock_code, ret.days),
                               "organ_pure_buy")

----------------------------------------------------------------------------
(* Claims about the securities table and the trend snapshots *)

\* C24: in every state batch runs of either collector reach, every flow
\* record of the store carries a security code that the securities table
\* holds: the security is upserted before any of its records is written.
C24_FlowsHaveSecurity ==
    \A r \in supply : \E s \in stocks : s.stock_code = r.stock_code

\* the manager has stored records of the first security and not yet added
\* the second
C24_Witness ==
    /\ impl = "StockManager"
    /\ \E r \in supply : r.stock_code = STOCK_LIST[1].code
    /\ \A s \in stocks : s.stock_code # STOCK_LIST[2].code

\* the snapshots the fetches of the running batch computed
C23_Computed ==
    {events[k].analysis : k \in {n \in DOMAIN events : events[n].analysis # NoAnalysis}}

\* C23: after any sequence of analysis runs the store holds at most one
\* snapshot per (stock_code, analysis_date, period_type), and that snapshot is
\* the one the latest run for the key computed, field by field.
C23_LatestSnapshot ==
    /\ \A a \in trend_analysis, b \in trend_analysis :
           trend_key(a) = trend_key(b) => a = b
    /\ \A a \in C23_Computed : a \in trend_analysis

\* a run that replaced the snapshot of its key by one of other totals
C23_Witness ==
    /\ ret.op = "save_supply_data"
    /\ \E old \in ret.snapshots :
           \E new \in C23_Computed :
               /\ trend_key(old) = trend_key(new)
               /\ old.foreigner_total_buy # new.foreigner_total_buy
               /\ new \in trend_analysis
               /\ old \notin trend_analysis

\* a step of StockManager.collect_all_stocks through collect_stock_data
C26_Collects == impl = "StockManager" /\ pc = "fetch" /\ pc' = "sleep"

C26_Fetch == events'[Len(events')]

\* the records of the security in the store as the step leaves it
C26_Stored == {r \in supply' : r.stock_code = C26_Fetch.code}

C26_Latest == CHOOSE r \in C26_Stored : \A q \in C26_Stored : ~text_before(r.date, q.date)

C26_FromStored ==
    IF C26_Stored = {}
    THEN C26_Fetch.analysis = NoAnalysis /\ trend_analysis' = trend_analysis
    ELSE /\ C26_Fetch.analysis # NoAnalysis
         /\ C26_Fetch.analysis \in trend_analysis'
         /\ C26_Fetch.analysis.stock_code = C26_Fetch.code
         /\ Cardinality(C26_Stored) <= DefaultDays =>
                /\ C26_Fetch.analysis.foreigner_total_buy
                       = sum_rows(C26_Stored, "foreigner_pure_buy")
                /\ C26_Fetch.analysis.organ_total_buy
                       = sum_rows(C26_Stored, "organ_pure_buy")
                /\ C26_Fetch.analysis.individual_total_buy
                       = sum_rows(C26_Stored, "individual_pure_buy")
         /\ sign_of(C26_Fetch.analysis.foreigner_continuous_days)
                = sign_of(C26_Latest.foreigner_pure_buy)

C25_NeverDeletedNorReactivated ==
    ret.op \in {"save_stock_info", "add_stock"} =>
        \A s \in ret.before :
            /\ Cardinality({t \in stocks : t.stock_code = s.stock_code}) = 1
            /\ s.is_active = 0 =>
                   \A t \in stocks : t.stock_code = s.stock_code => t.is_active = 0

=============================================================================
